---- MODULE Spec2Model ----
(***************************************************************************)
(* Model of turn_off_leds.py: main() reads the command line, calls         *)
(* turn_off_leds(device, baudrate, led_count), which opens a serial port,  *)
(* builds the Adalight "all off" packet, writes it three times and closes  *)
(* the port, and the process exits with a status code.                     *)
(*                                                                         *)
(* The serial library and the OS are the environment: an I/O call either   *)
(* returns or raises.  The exceptions modelled are the ones the calls in   *)
(* the try block raise themselves (serial.SerialException, and other       *)
(* subclasses of Exception such as ValueError or OSError); asynchronous    *)
(* BaseExceptions (KeyboardInterrupt) and a failing print are outside the  *)
(* model.                                                                  *)
(***************************************************************************)
EXTENDS Integers, Sequences, FiniteSets

VARIABLES
    argv,      \* sys.argv
    pc,        \* position in main / turn_off_leds
    args,      \* the arguments of the turn_off_leds call, once made
    portOpen,  \* the OS serial handle is held
    hi, lo, chk, packet,   \* locals of turn_off_leds
    i,         \* completed iterations of the send loop
    calls,     \* calls issued on serial.Serial / time, in order
    written,   \* the frames handed to ser.write, in order
    out,       \* lines printed to standard output
    exc,       \* the exception being raised, if any
    result,    \* <<v>> once turn_off_leds has returned v
    exitCode   \* <<n>> once the process has exited with status n

vars == <<argv, pc, args, portOpen, hi, lo, chk, packet, i, calls, written,
          out, exc, result, exitCode>>

----------------------------------------------------------------------------
(* Inputs *)

\* longest command line tried: the program name and MaxArgc-1 arguments
MaxArgc == 5

ProgName == <<"t">>

\* device paths; the second names no device of the machine
Devices == { <<"/dev/ttyUSB0">>, <<"/dev/nodev">> }
ExistingDevices == { <<"/dev/ttyUSB0">> }

BaudArgs == { <<"9","6","0","0">>, <<"f","a","s","t">> }

LedArgs ==
    { <<"1">>, <<"2">>, <<"3">>,
      <<"2","5","6">>, <<"2","5","7">>,
      <<"6","5","5","3","6">>,
      <<"6","5","5","3","7">>,
      <<"0">>, <<"-","1">>, <<"-","2","5","6">>,
      <<"x">> }

ExtraArgs == { <<"-","v">> }

ArgAt(k) ==
    IF k = 1 THEN {ProgName}
    ELSE IF k = 2 THEN Devices
    ELSE IF k = 3 THEN BaudArgs
    ELSE IF k = 4 THEN LedArgs
    ELSE ExtraArgs

RECURSIVE ArgvOfLen(_)
ArgvOfLen(n) ==
    IF n = 1 THEN { <<ProgName>> }
    ELSE { Append(a, x) : a \in ArgvOfLen(n - 1), x \in ArgAt(n) }

ArgvSet == UNION { ArgvOfLen(n) : n \in 1..MaxArgc }

----------------------------------------------------------------------------
(* int(str) *)

Digits == {"0","1","2","3","4","5","6","7","8","9"}

DigitVal(c) ==
    CASE c = "0" -> 0 [] c = "1" -> 1 [] c = "2" -> 2 [] c = "3" -> 3
      [] c = "4" -> 4 [] c = "5" -> 5 [] c = "6" -> 6 [] c = "7" -> 7
      [] c = "8" -> 8 [] c = "9" -> 9

Unsigned(s) == IF Len(s) > 0 /\ s[1] \in {"-", "+"} THEN Tail(s) ELSE s

IsIntLiteral(s) ==
    /\ Len(Unsigned(s)) > 0
    /\ \A k \in 1..Len(Unsigned(s)) : Unsigned(s)[k] \in Digits

RECURSIVE DigitsVal(_)
DigitsVal(s) ==
    IF Len(s) = 0 THEN 0
    ELSE 10 * DigitsVal(SubSeq(s, 1, Len(s) - 1)) + DigitVal(s[Len(s)])

IntOf(s) ==
    IF s[1] = "-" THEN 0 - DigitsVal(Unsigned(s)) ELSE DigitsVal(Unsigned(s))

----------------------------------------------------------------------------
(* Integer operators of the packet header, on Python's unbounded ints *)

ShiftBits == 8
ByteMask == 255
ChkMagic == 85
ByteRange == 256

RECURSIVE Pow2(_)
Pow2(n) == IF n = 0 THEN 1 ELSE 2 * Pow2(n - 1)

\* a >> n : arithmetic shift, floor division
Shr(a, n) == a \div Pow2(n)

\* a ^ b on two's-complement integers of unbounded width
RECURSIVE Xor(_, _)
Xor(a, b) ==
    IF a = 0 THEN b
    ELSE IF b = 0 THEN a
    ELSE IF a = -1 THEN -1 - b
    ELSE IF b = -1 THEN -1 - a
    ELSE 2 * Xor(a \div 2, b \div 2) + (((a % 2) + (b % 2)) % 2)

\* a & m for a mask m = 2^k - 1
And(a, m) == a % (m + 1)

Hi_Masked(led_count) == And(Shr(led_count - 1, ShiftBits), ByteMask)
Hi(led_count) == Shr(led_count - 1, ShiftBits)

Lo(led_count) == And(led_count - 1, ByteMask)

Chk_NoMagic(h, l) == And(Xor(h, l), ByteMask)
Chk(h, l) == And(Xor(Xor(h, l), ChkMagic), ByteMask)

\* b'Ada'
Magic == <<65, 100, 97>>

\* [0, 0, 0] * led_count ; a count below one gives the empty list
Black_Count(led_count) == [k \in 1..led_count |-> 0]
Black(led_count) == [k \in 1..(3 * led_count) |-> <<0, 0, 0>>[((k - 1) % 3) + 1]]

\* bytearray.append accepts range(0, 256) only
ByteOk(b) == b \in 0..(ByteRange - 1)

----------------------------------------------------------------------------
(* Control *)

SendRepeats == 3
MinArgv == 4
ExitOk == 0
ExitFail == 1

TooFewArgs_OffByOne(a) == Len(a) < MinArgv - 1
TooFewArgs(a) == Len(a) < MinArgv

\* statement order of the try block
StepAfter_NoSettle(s) ==
    CASE s = "open" -> "reset_input_buffer"
      [] s = "settle" -> "reset_input_buffer"
      [] s = "reset_input_buffer" -> "reset_output_buffer"
      [] s = "reset_output_buffer" -> "build"
      [] s = "build" -> "write"
      [] s = "write" -> "flush"
      [] s = "flush" -> "pause"
      [] s = "close" -> "report"
      [] s = "report" -> "return"
StepAfter(s) ==
    CASE s = "open" -> "settle"
      [] s = "settle" -> "reset_input_buffer"
      [] s = "reset_input_buffer" -> "reset_output_buffer"
      [] s = "reset_output_buffer" -> "build"
      [] s = "build" -> "write"
      [] s = "write" -> "flush"
      [] s = "flush" -> "pause"
      [] s = "close" -> "report"
      [] s = "report" -> "return"

\* for _ in range(3): k iterations are done
LoopDone_OffByOne(k) == k >= SendRepeats - 1
LoopDone(k) == k >= SendRepeats

\* which except clause of turn_off_leds takes an exception
HandlerFor_NoCatchAll(kind) ==
    IF kind = "SerialException" THEN "except_serial" ELSE "uncaught"
HandlerFor(kind) ==
    IF kind = "SerialException" THEN "except_serial" ELSE "except_other"

\* the printed lines, without their leading symbol
OkLine == [text |-> "LEDs turned off", detail |-> ""]
UsageLine == [text |-> "Usage: turn_off_leds.py <device> <baudrate> <led_count>",
              detail |-> ""]
SerialErrorLine(e) == [text |-> "Serial error: ", detail |-> e.detail]
ErrorLine_NoDetail(e) == [text |-> "Error: ", detail |-> ""]
ErrorLine(e) == [text |-> "Error: ", detail |-> e.detail]

ExitCodeFor_AlwaysOk(success) == ExitOk
ExitCodeFor(success) == IF success THEN ExitOk ELSE ExitFail

NoExc == [kind |-> "none", detail |-> "", at |-> "none"]

\* the kinds of exception an I/O call of the try block raises
IoFaults == {"SerialException", "OSError"}

Raised(kind, detail, at) == [kind |-> kind, detail |-> detail, at |-> at]

----------------------------------------------------------------------------
Init ==
    /\ argv \in ArgvSet
    /\ pc = "main"
    /\ args = <<>>
    /\ portOpen = FALSE
    /\ hi = 0 /\ lo = 0 /\ chk = 0
    /\ packet = <<>>
    /\ i = 0
    /\ calls = <<>>
    /\ written = <<>>
    /\ out = <<>>
    /\ exc = NoExc
    /\ result = <<>>
    /\ exitCode = <<>>

TofVars == <<portOpen, hi, lo, chk, packet, i, calls, written>>

\* main, lines 62-64: too few arguments
Usage ==
    /\ pc = "main"
    /\ TooFewArgs(argv)
    /\ out' = Append(out, UsageLine)
    /\ exitCode' = <<ExitFail>>
    /\ pc' = "exited"
    /\ UNCHANGED <<argv, args, exc, result>>
    /\ UNCHANGED TofVars

\* main, lines 66-70: read the arguments and call turn_off_leds
ParseArgs ==
    /\ pc = "main"
    /\ ~TooFewArgs(argv)
    /\ IF Len(argv) < 4
       THEN /\ exc' = Raised("IndexError", "list index out of range", "main")
            /\ pc' = "uncaught"
            /\ args' = args
       ELSE IF ~IsIntLiteral(argv[3])
       THEN /\ exc' = Raised("ValueError", "invalid literal for int()", "main")
            /\ pc' = "uncaught"
            /\ args' = args
       ELSE IF ~IsIntLiteral(argv[4])
       THEN /\ exc' = Raised("ValueError", "invalid literal for int()", "main")
            /\ pc' = "uncaught"
            /\ args' = args
       ELSE /\ args' = [device |-> argv[2], baudrate |-> IntOf(argv[3]),
                        led_count |-> IntOf(argv[4])]
            /\ pc' = "open"
            /\ exc' = exc
    /\ UNCHANGED <<argv, out, result, exitCode>>
    /\ UNCHANGED TofVars

\* lines 14-21: serial.Serial(port=device, ...)
Open ==
    /\ pc = "open"
    /\ calls' = Append(calls, "open")
    /\ \/ /\ args.device \in ExistingDevices
          /\ portOpen' = TRUE
          /\ pc' = StepAfter("open")
          /\ exc' = exc
       \/ /\ exc' = Raised("SerialException", "could not open port", "open")
          /\ pc' = HandlerFor("SerialException")
          /\ portOpen' = portOpen
       \/ /\ args.device \in ExistingDevices
          /\ exc' = Raised("ValueError", "Not a valid baudrate", "open")
          /\ pc' = HandlerFor("ValueError")
          /\ portOpen' = portOpen
    /\ UNCHANGED <<argv, args, hi, lo, chk, packet, i, written, out, result, exitCode>>

\* line 24: time.sleep(0.1)
Settle ==
    /\ pc = "settle"
    /\ calls' = Append(calls, "sleep")
    /\ pc' = StepAfter("settle")
    /\ UNCHANGED <<argv, args, portOpen, hi, lo, chk, packet, i, written, out,
                   exc, result, exitCode>>

\* an I/O call on the open port: it returns, or raises one of IoFaults
IoCall(step, name) ==
    /\ pc = step
    /\ calls' = Append(calls, name)
    /\ \/ /\ pc' = StepAfter(step)
          /\ exc' = exc
       \/ \E kind \in IoFaults :
            /\ exc' = Raised(kind, name, step)
            /\ pc' = HandlerFor(kind)

\* line 27
ResetInput ==
    /\ IoCall("reset_input_buffer", "reset_input_buffer")
    /\ UNCHANGED <<argv, args, portOpen, hi, lo, chk, packet, i, written, out,
                   result, exitCode>>

\* line 28
ResetOutput ==
    /\ IoCall("reset_output_buffer", "reset_output_buffer")
    /\ UNCHANGED <<argv, args, portOpen, hi, lo, chk, packet, i, written, out,
                   result, exitCode>>

\* lines 31-42: build the packet
Build ==
    /\ pc = "build"
    /\ hi' = Hi(args.led_count)
    /\ lo' = Lo(args.led_count)
    /\ chk' = Chk(hi', lo')
    /\ IF ~ByteOk(hi')
       THEN /\ packet' = Magic
            /\ exc' = Raised("ValueError", "byte must be in range(0, 256)", "build")
            /\ pc' = HandlerFor("ValueError")
       ELSE IF ~ByteOk(lo')
       THEN /\ packet' = Append(Magic, hi')
            /\ exc' = Raised("ValueError", "byte must be in range(0, 256)", "build")
            /\ pc' = HandlerFor("ValueError")
       ELSE IF ~ByteOk(chk')
       THEN /\ packet' = Append(Append(Magic, hi'), lo')
            /\ exc' = Raised("ValueError", "byte must be in range(0, 256)", "build")
            /\ pc' = HandlerFor("ValueError")
       ELSE /\ packet' = Append(Append(Append(Magic, hi'), lo'), chk')
                            \o Black(args.led_count)
            /\ exc' = exc
            /\ pc' = StepAfter("build")
    /\ UNCHANGED <<argv, args, portOpen, i, calls, written, out, result, exitCode>>

\* line 46: ser.write(packet)
Write ==
    /\ IoCall("write", "write")
    /\ written' = Append(written, packet)
    /\ UNCHANGED <<argv, args, portOpen, hi, lo, chk, packet, i, out, result, exitCode>>

\* line 47: ser.flush()
Flush ==
    /\ IoCall("flush", "flush")
    /\ UNCHANGED <<argv, args, portOpen, hi, lo, chk, packet, i, written, out,
                   result, exitCode>>

\* line 48 and the loop header, line 45
Pause ==
    /\ pc = "pause"
    /\ calls' = Append(calls, "sleep")
    /\ i' = i + 1
    /\ pc' = IF LoopDone(i') THEN "close" ELSE "write"
    /\ UNCHANGED <<argv, args, portOpen, hi, lo, chk, packet, written, out, exc,
                   result, exitCode>>

\* line 50: ser.close()
Close ==
    /\ pc = "close"
    /\ calls' = Append(calls, "close")
    /\ \/ /\ portOpen' = FALSE
          /\ pc' = StepAfter("close")
          /\ exc' = exc
       \/ \E kind \in IoFaults :
            /\ exc' = Raised(kind, "close", "close")
            /\ pc' = HandlerFor(kind)
            /\ portOpen' \in {TRUE, FALSE}
    /\ UNCHANGED <<argv, args, hi, lo, chk, packet, i, written, out, result, exitCode>>

\* lines 51-52
Report ==
    /\ pc = "report"
    /\ out' = Append(out, OkLine)
    /\ result' = <<TRUE>>
    /\ pc' = "return"
    /\ UNCHANGED <<argv, args, exc, exitCode>>
    /\ UNCHANGED TofVars

\* lines 54-56
ExceptSerial ==
    /\ pc = "except_serial"
    /\ out' = Append(out, SerialErrorLine(exc))
    /\ result' = <<FALSE>>
    /\ pc' = "return"
    /\ UNCHANGED <<argv, args, exc, exitCode>>
    /\ UNCHANGED TofVars

\* lines 57-59
ExceptOther ==
    /\ pc = "except_other"
    /\ out' = Append(out, ErrorLine(exc))
    /\ result' = <<FALSE>>
    /\ pc' = "return"
    /\ UNCHANGED <<argv, args, exc, exitCode>>
    /\ UNCHANGED TofVars

\* main, lines 70-71: sys.exit(0 if success else 1)
Exit ==
    /\ pc = "return"
    /\ exitCode' = <<ExitCodeFor(result[1])>>
    /\ pc' = "exited"
    /\ UNCHANGED <<argv, args, out, exc, result>>
    /\ UNCHANGED TofVars

\* an exception nothing catches ends the interpreter with status 1
Uncaught ==
    /\ pc = "uncaught"
    /\ exitCode' = <<ExitFail>>
    /\ pc' = "exited"
    /\ UNCHANGED <<argv, args, out, exc, result>>
    /\ UNCHANGED TofVars

Next ==
    \/ Usage
    \/ ParseArgs
    \/ Open
    \/ Settle
    \/ ResetInput
    \/ ResetOutput
    \/ Build
    \/ Write
    \/ Flush
    \/ Pause
    \/ Close
    \/ Report
    \/ ExceptSerial
    \/ ExceptOther
    \/ Exit
    \/ Uncaught

Spec == Init /\ [][Next]_vars

----------------------------------------------------------------------------
(* Vocabulary of the properties *)

\* largest count whose header fits: hi is one byte
MaxLedCount == ByteRange * ByteRange

\* turn_off_leds has been called
Called == DOMAIN args # {}

\* turn_off_leds has returned
Returned == result # <<>>

\* serial.Serial(...) returned a port
Opened == calls # <<>> /\ exc.at # "open"

\* the packet-building statements (lines 31-42) have run
BuildRan ==
    /\ Called
    /\ pc \notin {"open", "settle", "reset_input_buffer", "reset_output_buffer",
                  "build"}
    /\ exc.at \notin {"open", "reset_input_buffer", "reset_output_buffer"}

\* ... and ran to the end
FrameBuilt == BuildRan /\ exc.at # "build"

\* a step of the try block raised
Faulted == exc.at \notin {"none", "main"}

\* bit k of a
Bit(a, k) == (a \div Pow2(k)) % 2

\* XOR of two bytes, bit by bit
XorByte(a, b) ==
    LET b0 == (Bit(a, 0) + Bit(b, 0)) % 2
        b1 == (Bit(a, 1) + Bit(b, 1)) % 2
        b2 == (Bit(a, 2) + Bit(b, 2)) % 2
        b3 == (Bit(a, 3) + Bit(b, 3)) % 2
        b4 == (Bit(a, 4) + Bit(b, 4)) % 2
        b5 == (Bit(a, 5) + Bit(b, 5)) % 2
        b6 == (Bit(a, 6) + Bit(b, 6)) % 2
        b7 == (Bit(a, 7) + Bit(b, 7)) % 2
    IN  b0 + 2 * b1 + 4 * b2 + 8 * b3 + 16 * b4 + 32 * b5 + 64 * b6 + 128 * b7

\* f is the Adalight "all off" frame of n LEDs
IsOffFrame(f, n) ==
    LET h == ((n - 1) \div 256) % 256
        l == (n - 1) % 256
    IN  /\ Len(f) >= 6
        /\ f[1] = 65 /\ f[2] = 100 /\ f[3] = 97
        /\ f[4] = h
        /\ f[5] = l
        /\ f[6] = XorByte(XorByte(h, l), 85)
        /\ \A k \in 7..Len(f) : f[k] = 0

FullTrace ==
    << "open", "sleep", "reset_input_buffer", "reset_output_buffer",
       "write", "flush", "sleep", "write", "flush", "sleep",
       "write", "flush", "sleep", "close" >>

IsPrefix(s, t) == Len(s) <= Len(t) /\ \A k \in 1..Len(s) : s[k] = t[k]

ReadOps == {"read", "readline", "readlines", "read_until", "read_all"}

----------------------------------------------------------------------------
\* C1: for every led_count in [1, 65536] turn_off_leds builds a frame whose
\* bytes 0-2 are 'A','d','a', byte 3 is the high byte of led_count-1, byte 4
\* its low byte, byte 5 is hi XOR lo XOR 0x55, and every later byte is 0
\* (led_count 1 gives checksum 0x55; 256 gives hi 0x00, lo 0xFF, chk 0xAA).
C1_FrameLayout ==
    (BuildRan /\ args.led_count \in 1..MaxLedCount) =>
        /\ FrameBuilt
        /\ IsOffFrame(packet, args.led_count)
        /\ (args.led_count = 1 => packet[6] = 85)
        /\ (args.led_count = 256 =>
                packet[4] = 0 /\ packet[5] = 255 /\ packet[6] = 170)

C1_Witness ==
    /\ FrameBuilt
    /\ args.led_count = 256
    /\ packet[4] = 0 /\ packet[5] = 255 /\ packet[6] = 170
    /\ Len(packet) = 774

\* C2 as stated: for every led_count >= 1, with no upper bound, the frame
\* built has length exactly 6 + 3*led_count.
C2_LengthUnbounded ==
    (BuildRan /\ args.led_count >= 1) =>
        /\ FrameBuilt
        /\ Len(packet) = 6 + 3 * args.led_count

\* C2 amended: for every led_count in [1, 65536] the frame built has length
\* exactly 6 + 3*led_count; for a larger led_count no frame is built.
C2_LengthInRange ==
    /\ (BuildRan /\ args.led_count \in 1..MaxLedCount) =>
            FrameBuilt /\ Len(packet) = 6 + 3 * args.led_count
    /\ (BuildRan /\ args.led_count > MaxLedCount) =>
            ~FrameBuilt /\ Len(packet) < 6

C2_Witness ==
    /\ FrameBuilt
    /\ args.led_count = 257
    /\ Len(packet) = 777

\* C3: whenever turn_off_leds returns after the port was opened, the port
\* has been closed.
C3_ReleasedOnReturn ==
    (Returned /\ Opened) => ~portOpen

\* C4: a call that returns True issued exactly three writes, each of the same
\* unmodified frame, each followed at once by a flush and then a pause, and
\* no read.
C4_SuccessfulSend ==
    result = <<TRUE>> =>
        /\ Cardinality({k \in 1..Len(calls) : calls[k] = "write"}) = 3
        /\ Len(written) = 3
        /\ \A k \in 1..Len(written) :
                written[k] = packet /\ IsOffFrame(written[k], args.led_count)
        /\ \A k \in 1..Len(calls) :
                calls[k] = "write" =>
                    /\ k + 2 <= Len(calls)
                    /\ calls[k + 1] = "flush"
                    /\ calls[k + 2] = "sleep"
        /\ \A k \in 1..Len(calls) : calls[k] \notin ReadOps

C4_Witness ==
    /\ result = <<TRUE>>
    /\ args.led_count = 2
    /\ written = <<packet, packet, packet>>

\* C5: when a step of turn_off_leds faults, no later step is issued (the
\* faulting call is the last call; a build fault is followed by no call), no
\* exception leaves turn_off_leds, and the call returns False; it returns
\* True only when no step faulted.
C5_FaultAbandons ==
    /\ Faulted =>
        /\ pc \in {"except_serial", "except_other", "return", "exited"}
        /\ calls[Len(calls)] =
              (IF exc.at = "build" THEN "reset_output_buffer" ELSE exc.at)
        /\ result # <<TRUE>>
        /\ (pc \in {"return", "exited"} => result = <<FALSE>>)
    /\ (Called /\ pc # "uncaught") => (Returned => (result = <<FALSE>> <=> Faulted))
    /\ Called => pc # "uncaught"

C5_Witness ==
    /\ pc = "exited"
    /\ result = <<FALSE>>
    /\ exc.at = "flush"
    /\ exc.kind = "OSError"
    /\ Len(written) = 2

\* C6: the process exits with 0 exactly when turn_off_leds returned True and
\* with 1 otherwise; a device that cannot be opened gives False and exit 1.
C6_ExitCode ==
    /\ pc = "exited" =>
        /\ exitCode \in {<<0>>, <<1>>}
        /\ (exitCode = <<0>> <=> result = <<TRUE>>)
    /\ pc # "exited" => exitCode = <<>>
    /\ (Called /\ args.device \notin ExistingDevices /\ pc \in {"return", "exited"}) =>
            result = <<FALSE>> /\ ~Opened

C6_Witness ==
    /\ pc = "exited"
    /\ Called
    /\ args.device \notin ExistingDevices
    /\ result = <<FALSE>>
    /\ exitCode = <<1>>

\* C7: with fewer than 3 positional arguments the program prints the usage
\* message and exits with 1; turn_off_leds is not called, no port is opened
\* and nothing is written.
C7_Usage ==
    Len(argv) < 4 =>
        /\ pc \in {"main", "exited"}
        /\ (pc = "exited" => out = <<UsageLine>> /\ exitCode = <<1>>)
        /\ ~Called
        /\ calls = <<>>
        /\ ~portOpen
        /\ written = <<>>

C7_Witness ==
    /\ Len(argv) = 3
    /\ pc = "exited"
    /\ out = <<UsageLine>>
    /\ exitCode = <<1>>

\* C8: a turn_off_leds call prints exactly one status line: the "LEDs turned
\* off" line iff it returns True, a failure line with the error detail iff it
\* returns False; the two failure lines differ in their text only.
C8_StatusLine ==
    /\ (Called /\ ~Returned) => out = <<>>
    /\ Returned =>
        /\ Len(out) = 1
        /\ (out[1] = OkLine <=> result = <<TRUE>>)
        /\ (out[1].text \in {"Serial error: ", "Error: "} <=> result = <<FALSE>>)
        /\ result = <<FALSE>> =>
              /\ exc.detail # ""
              /\ out[1].detail = exc.detail
              /\ (out[1].text = "Serial error: " <=> exc.kind = "SerialException")

C8_Witness ==
    /\ result = <<FALSE>>
    /\ exc.at = "build"
    /\ out = << [text |-> "Error: ", detail |-> "byte must be in range(0, 256)"] >>

\* C9: the calls of a run are, in order: open, the settle pause, the input
\* and output buffer discards, then three write-flush-pause cycles, then
\* close; success is printed only after the close.
C9_StepOrder ==
    /\ IsPrefix(calls, FullTrace)
    /\ (written # <<>> => Len(calls) >= 5 /\ FrameBuilt)
    /\ (OkLine \in {out[k] : k \in 1..Len(out)}) =>
            calls = FullTrace /\ ~portOpen

C9_Witness ==
    /\ result = <<TRUE>>
    /\ calls = FullTrace
    /\ out = <<OkLine>>

\* C10: for a led_count outside [1, 65536] hi is no byte, the build faults,
\* nothing is written and the call returns False; every frame written is the
\* off frame of some count in [1, 65536].
C10_NoMalformedFrame ==
    /\ (Called /\ args.led_count \notin 1..MaxLedCount) =>
        /\ written = <<>>
        /\ \A k \in 1..Len(calls) : calls[k] # "write"
        /\ result # <<TRUE>>
        /\ (pc \in {"return", "exited"} => result = <<FALSE>>)
        /\ BuildRan => (hi \notin 0..255 /\ exc.at = "build")
    /\ \A k \in 1..Len(written) :
            LET n == (Len(written[k]) - 6) \div 3
            IN  /\ n \in 1..MaxLedCount
                /\ Len(written[k]) = 6 + 3 * n
                /\ IsOffFrame(written[k], n)

C10_Witness ==
    /\ Opened
    /\ args.led_count = MaxLedCount + 1
    /\ exc.at = "build"
    /\ hi = 256
    /\ result = <<FALSE>>
    /\ written = <<>>

====
